---- MODULE Spec2Model ----
(***************************************************************************)
(* Bypass-detection and notification pipeline of github-pr-bypass-checker. *)
(*                                                                         *)
(* One run per webhook delivery: the /webhook route (src/app.js) answers   *)
(* the request and calls processWebhook, which deduplicates on an MD5 of   *)
(* the webhook id, dispatches merged pull_request.closed events to         *)
(* handlePullRequest (src/handlers/pullRequest.js) and finally trims the   *)
(* dedup set.  The handler exchanges the app credentials for a token,      *)
(* queries the organization and repository rule suites and posts one       *)
(* combined comment.  JavaScript runs each handler to its next await       *)
(* without interruption, so one action of the model is the code between    *)
(* two awaits of one run; runs interleave at the awaits.                   *)
(*                                                                         *)
(* Spec, SpecRedelivery and SpecBurst run whole deliveries; SpecReturning  *)
(* adds that every external call settles; SpecAdmission puts               *)
(* verifyGitHubWebhook in front of them; SpecAggregate takes one pass of   *)
(* handlePullRequestClosed through the two rule-suite queries for every    *)
(* pair of answers the remote API can give; SpecHandler calls              *)
(* handlePullRequest directly and SpecRender formatRuleSuites.             *)
(***************************************************************************)
EXTENDS Integers, Sequences, FiniteSets, TLC

(* ------------------------------ bounds --------------------------------- *)

\* number of webhook deliveries in one behaviour of Spec
MaxDeliveries == 2

\* number of webhook deliveries in one behaviour of SpecRedelivery
MaxRedeliveries == 5

\* number of webhook deliveries in one behaviour of SpecBurst
MaxBurst == 4

\* number of requests in one behaviour of SpecAdmission
MaxRequests == 2

\* processedWebhooks.size > 1000 (src/app.js:244), scaled down
RetentionBound == 2

\* for (let i = 0; i < 200; i++) (src/app.js:246), scaled down
EvictCount == 1

\* length of the raw lists a rule-suite query answers in SpecAggregate
MaxLen == 2

\* number of webhook deliveries in one behaviour of SpecReturning
MaxPipelines == 2

\* number of rule suites handed to formatRuleSuites in SpecRender
MaxSuites == 2

(* ------------------------------ inputs --------------------------------- *)

NoPR == [present |-> FALSE, number |-> "", merged |-> FALSE,
         merge_commit_sha |-> "", hasBase |-> FALSE, full_name |-> <<>>, ref |-> ""]

PR(number, merged, sha, hasBase, repo) ==
    [present |-> TRUE, number |-> number, merged |-> merged,
     merge_commit_sha |-> sha, hasBase |-> hasBase,
     full_name |-> <<"acme", repo>>, ref |-> "main"]

Delivery(event, action, deliveryId, hasBody, pr) ==
    [event |-> event, action |-> action, deliveryId |-> deliveryId,
     hasBody |-> hasBody, pull_request |-> pr]

\* the deliveries the transport may hand to the /webhook route
Events ==
    { Delivery("pull_request", "closed", "d1", TRUE, PR("42", TRUE, "shaA", TRUE, "widgets")),
      \* the same logical event redelivered under another delivery id
      Delivery("pull_request", "closed", "d2", TRUE, PR("42", TRUE, "shaA", TRUE, "widgets")),
      \* another merged pull request
      Delivery("pull_request", "closed", "d3", TRUE, PR("7", TRUE, "shaB", TRUE, "gadgets")),
      \* not closed
      Delivery("pull_request", "opened", "d4", TRUE, PR("42", FALSE, "shaT", TRUE, "widgets")),
      \* closed without merging (GitHub still reports a test merge commit)
      Delivery("pull_request", "closed", "d5", TRUE, PR("42", FALSE, "shaT", TRUE, "widgets")),
      \* merged flag set but no merge commit
      Delivery("pull_request", "closed", "d6", TRUE, PR("42", TRUE, "", TRUE, "widgets")),
      \* merged pull request whose base object is missing
      Delivery("pull_request", "closed", "d7", TRUE, PR("9", TRUE, "shaA", FALSE, "widgets")),
      \* pull_request event without a pull_request object
      Delivery("pull_request", "closed", "d8", TRUE, NoPR),
      \* unrecognized kind that carries a merged pull request
      Delivery("push", "closed", "d9", TRUE, PR("42", TRUE, "shaA", TRUE, "widgets")),
      Delivery("protected_branch", "policy_override", "d10", TRUE, NoPR),
      \* request without a parsed body
      Delivery("pull_request", "closed", "d11", FALSE, NoPR) }

\* the deliveries of SpecRedelivery: one merged pull request, delivered
\* again and again between deliveries of other events
RedeliveryEvents ==
    { e \in Events : e.deliveryId \in {"d1", "d4", "d9"} }

\* the deliveries of SpecBurst: two merged pull requests whose runs wait
\* for the remote API (the second with a merge commit no rule suite
\* carries) while events that need no call keep arriving
BurstEvents ==
    { e \in Events : e.deliveryId \in {"d1", "d4", "d5"} }
    \cup { Delivery("pull_request", "closed", "d12", TRUE,
                    PR("8", TRUE, "shaC", TRUE, "gadgets")) }

\* rule-suite records of the remote API
Rec(after, actor) == [after_sha |-> after, actor_name |-> actor]

RawLists ==
    { <<>>,
      << Rec("shaA", "alice") >>,
      << Rec("shaB", "bob") >>,
      << Rec("shaB", "bob"), Rec("shaA", "alice"), Rec("shaA", "carol") >> }

\* what octokit.request resolves or rejects with
QueryResponses ==
    { [ok |-> FALSE, status |-> s, shape |-> "none", list |-> <<>>] : s \in {404, 403, 0} }
    \cup { [ok |-> TRUE, status |-> 200, shape |-> sh, list |-> l] :
             sh \in {"array", "wrapped"}, l \in RawLists }
    \cup { [ok |-> TRUE, status |-> 200, shape |-> "other", list |-> <<>>] }

\* the records the remote API holds for the base ref
Records == { Rec("shaA", "alice"), Rec("shaB", "bob"), Rec("shaA", "carol") }

\* every list of at most MaxLen records
AllLists == UNION { [1..n -> Records] : n \in 0..MaxLen }

\* what octokit.request resolves or rejects with in SpecAggregate; a body
\* of another shape may carry the list under another field
AllResponses ==
    { [ok |-> FALSE, status |-> s, shape |-> "none", list |-> <<>>] : s \in {404, 403, 0} }
    \cup { [ok |-> TRUE, status |-> 200, shape |-> sh, list |-> l] :
             sh \in {"array", "wrapped", "other"}, l \in AllLists }

MergeCommits == {"shaA", "shaB"}

\* process.env and the .env file as createOctokitClient reads them;
\* orgLevel: the app was set up for checking org-level rulesets (the
\* optional organization set-up of the README), which no code reads
Environments ==
    { [appId |-> TRUE,  installationId |-> TRUE,  privateKey |-> TRUE,  orgLevel |-> TRUE],
      [appId |-> FALSE, installationId |-> TRUE,  privateKey |-> TRUE,  orgLevel |-> TRUE],
      [appId |-> TRUE,  installationId |-> FALSE, privateKey |-> TRUE,  orgLevel |-> TRUE],
      [appId |-> TRUE,  installationId |-> TRUE,  privateKey |-> FALSE, orgLevel |-> TRUE],
      [appId |-> TRUE,  installationId |-> TRUE,  privateKey |-> TRUE,  orgLevel |-> FALSE] }

(* ------------------------------- state --------------------------------- *)

VARIABLES
    processedWebhooks,  \* the Set of src/app.js:10, in insertion order
    runs,               \* one record per delivery, in order of arrival
    comments,           \* comments created on the remote pull requests
    env,                \* deployment configuration
    probe,              \* one pass of handlePullRequestClosed over given answers
    admission           \* webhookSecret, test mode and the requests received

vars == << processedWebhooks, runs, comments, env, probe, admission >>

ExternalCalls == {"tokenExchange", "orgQuery", "repoQuery", "createComment"}

(* ---------------------------- pure helpers ----------------------------- *)

Min(a, b) == IF a < b THEN a ELSE b

RECURSIVE SelectSeqBy(_, _)
\* Array.prototype.filter on after_sha === mergeCommitSha
SelectSeqByFirst(list, sha) ==
    IF \E n \in 1..Len(list) : list[n].after_sha = sha
        THEN << list[CHOOSE n \in 1..Len(list) :
                    /\ list[n].after_sha = sha
                    /\ \A m \in 1..(n - 1) : list[m].after_sha # sha] >>
        ELSE << >>
SelectSeqBy(list, sha) ==
    IF list = <<>> THEN <<>>
    ELSE IF Head(list).after_sha = sha
         THEN << Head(list) >> \o SelectSeqBy(Tail(list), sha)
         ELSE SelectSeqBy(Tail(list), sha)

\* payload.pull_request.merged
PrMergedFromSha(pr) == pr.merge_commit_sha # ""
PrMerged(pr) == pr.merged

\* `${event}.${action}.${deliveryId}.${prNumber}.${mergeCommitSha}`
WebhookId(e) ==
    << e.event, e.action, e.deliveryId,
       IF e.pull_request.present /\ e.pull_request.number # ""
           THEN e.pull_request.number ELSE "unknown",
       IF e.pull_request.present THEN e.pull_request.merge_commit_sha ELSE "" >>

\* crypto.createHash('md5').update(webhookId).digest('hex'); MD5 is taken
\* as collision free on the ids of the model
WebhookHash(e) == << "md5", WebhookId(e) >>

\* processedWebhooks.has(webhookHash)
HasNever(pw, h) == FALSE
HasWhileBusy(pw, h) ==
    \/ \E i \in 1..Len(pw) : pw[i] = h
    \/ \E i \in 1..Len(runs) : runs[i].pc # "done"
Has(pw, h) == \E i \in 1..Len(pw) : pw[i] = h

\* processedWebhooks.add(webhookHash)
GateAddNothing(pw, h) == pw
GateAddFront(pw, h) == IF Has(pw, h) THEN pw ELSE << h >> \o pw
GateAdd(pw, h) == IF Has(pw, h) THEN pw ELSE Append(pw, h)

\* the set after the clean-up at the end of processWebhook: the iterator
\* yields the keys in insertion order and the first EvictCount are deleted
CleanUpNewest(pw) ==
    IF Len(pw) > RetentionBound
        THEN SubSeq(pw, 1, Len(pw) - Min(EvictCount, Len(pw)))
        ELSE pw
CleanUpNever(pw) == pw
CleanUp(pw) ==
    IF Len(pw) > RetentionBound
        THEN SubSeq(pw, Min(EvictCount, Len(pw)) + 1, Len(pw))
        ELSE pw

\* the keys that clean-up deleted, oldest first
Evicted(pw) ==
    SelectSeq(pw, LAMBDA k : \A j \in 1..Len(CleanUp(pw)) : CleanUp(pw)[j] # k)


(* ------------------------- policy query client ------------------------- *)

\* checkOrgBypassedRulesSuites / checkRepoBypassedRuleSuites after the
\* await of octokit.request: the value returned, or raised = TRUE when the
\* function rejects.  The catch block reads apiPath, a const of the try
\* block, in its 404 branch, so that branch throws a ReferenceError.
CheckBypassedRuleSuitesArrayOnly(resp, mergeCommitSha) ==
    IF resp.ok
        THEN IF resp.shape = "array"
                 THEN [raised |-> FALSE, list |-> SelectSeqBy(resp.list, mergeCommitSha)]
                 ELSE [raised |-> FALSE, list |-> <<>>]
        ELSE IF resp.status = 404
                 THEN [raised |-> TRUE, list |-> <<>>]
                 ELSE [raised |-> FALSE, list |-> <<>>]
CheckBypassedRuleSuitesUnfiltered(resp, mergeCommitSha) ==
    IF resp.ok
        THEN IF resp.shape \in {"array", "wrapped"}
                 THEN [raised |-> FALSE, list |-> resp.list]
                 ELSE [raised |-> FALSE, list |-> <<>>]
        ELSE IF resp.status = 404
                 THEN [raised |-> TRUE, list |-> <<>>]
                 ELSE [raised |-> FALSE, list |-> <<>>]
CheckBypassedRuleSuites(resp, mergeCommitSha) ==
    IF resp.ok
        THEN IF resp.shape \in {"array", "wrapped"}
                 THEN [raised |-> FALSE, list |-> SelectSeqBy(resp.list, mergeCommitSha)]
                 ELSE [raised |-> FALSE, list |-> <<>>]
        ELSE IF resp.status = 404
                 THEN [raised |-> TRUE, list |-> <<>>]
                 ELSE [raised |-> FALSE, list |-> <<>>]

(* ------------------------- exception handling -------------------------- *)

\* the try blocks around each step that can throw, innermost first; the
\* two inner try blocks of handlePullRequestClosed are named after their
\* scope, "route" is the .catch on the promise of processWebhook
TryBlocks(step, simple) ==
    LET outer == IF simple
                     THEN << "handlePullRequest", "processWebhook", "route" >>
                     ELSE << "handlePullRequestClosed", "handlePullRequest",
                             "processWebhook", "route" >>
    IN  CASE step \in {"config", "tokenExchange"} -> << "createOctokitClient" >> \o outer
          [] step = "base" -> outer
          [] step = "orgQuery" -> << "handlePullRequestClosed.org" >> \o outer
          [] step = "repoQuery" -> << "handlePullRequestClosed.repo" >> \o outer
          [] step = "createComment" ->
                 << "postComment" >>
                 \o (IF simple THEN << >> ELSE << "postCombinedRulesetBypassComment" >>)
                 \o outer

\* catch blocks that log and throw the error again
RethrowsAlways(fn) == TRUE
Rethrows(fn) == fn \in {"createOctokitClient", "postComment"}

RECURSIVE AbsorbedBy(_)
\* the try block whose catch ends the propagation of an exception, "host"
\* when the exception leaves every one of them (an unhandled rejection)
AbsorbedBy(blocks) ==
    IF blocks = << >> THEN "host"
    ELSE IF Rethrows(Head(blocks)) THEN AbsorbedBy(Tail(blocks))
    ELSE Head(blocks)

\* an exception raised at step does not leave handlePullRequest, so that
\* processWebhook goes on to its clean-up
ReachesCleanUp(step, simple) ==
    AbsorbedBy(TryBlocks(step, simple)) \notin {"processWebhook", "route", "host"}

(* ----------------------------- aggregation ------------------------------ *)

\* what handlePullRequestClosed keeps of one scope's query: the list
\* returned, or the initial [] when the call raised into the catch that
\* logs "Could not check ... rule suites"
ScopeResult(r) == IF r.raised THEN <<>> ELSE r.list

\* a rejected query ends the handler instead of falling through to the
\* next scope
QueryAbortsOnRaise(r, step) == r.raised
QueryAborts(r, step) ==
    r.raised /\ AbsorbedBy(TryBlocks(step, FALSE)) # Head(TryBlocks(step, FALSE))

\* bypassFound after both scopes
BypassFoundAlways(org, repo) == Len(org) >= 0 \/ Len(repo) >= 0
BypassFoundRepoOnly(org, repo) == Len(repo) > 0
BypassFound(org, repo) == Len(org) > 0 \/ Len(repo) > 0

\* totalBypasses of postCombinedRulesetBypassComment
TotalBypassesLevels(org, repo) ==
    (IF Len(org) > 0 THEN 1 ELSE 0) + (IF Len(repo) > 0 THEN 1 ELSE 0)
TotalBypasses(org, repo) == Len(org) + Len(repo)

\* the headings of the scope sections postCombinedRulesetBypassComment
\* puts into the comment
Sections(org, repo) ==
    (IF Len(org) > 0 THEN {"Organization-Level Bypasses"} ELSE {})
        \cup (IF Len(repo) > 0 THEN {"Repository-Level Bypasses"} ELSE {})

(* --------------------------- event processor --------------------------- *)

\* validateRuleset: true means "not bypassed"
\* validateRuleset when its logger.info call throws (infoThrows) or not:
\* the catch block returns true as the try block does
ValidateRulesetFalseOnError(pr, infoThrows) == ~infoThrows
ValidateRulesetLogged(pr, infoThrows) == IF infoThrows THEN TRUE ELSE TRUE
ValidateRuleset(pr) == ValidateRulesetLogged(pr, FALSE)

\* createOctokitClient up to its await: "throw" or the token exchange
CreateOctokitClientNoKeyCheck(environment) ==
    IF ~environment.appId THEN "throw"
    ELSE IF ~environment.installationId THEN "throw"
    ELSE "tokenExchange"
CreateOctokitClientStart(environment) ==
    IF ~environment.appId THEN "throw"
    ELSE IF ~environment.installationId THEN "throw"
    ELSE IF ~environment.privateKey THEN "throw"
    ELSE "tokenExchange"

\* what auth({type: "installation"}) settles with: a token, a transient
\* failure (timeout, connection reset, 5xx) or a rejection of the credentials
AuthResults == {"token", "transient", "rejected"}

\* the token of the exchange made by run i: the remote mints one per exchange
MintTokenCached(i) == IF i > 1 THEN 1 ELSE i
MintToken(i) == i

\* handlePullRequestClosed up to its first await
HandlePullRequestClosedNoShaCheck(pr, environment) ==
    IF ~pr.hasBase THEN "throwBase"
    ELSE IF CreateOctokitClientStart(environment) = "throw" THEN "throwConfig"
    ELSE "tokenExchange"
HandlePullRequestClosedStart(pr, environment) ==
    IF ~pr.hasBase THEN "throwBase"
    ELSE IF pr.merge_commit_sha = "" THEN "Skipped"
    ELSE IF CreateOctokitClientStart(environment) = "throw" THEN "throwConfig"
    ELSE "tokenExchange"

\* handlePullRequest up to its first await
HandlePullRequestStartLogged(e, environment, infoThrows) ==
    IF ~e.hasBody THEN "Failed"
    ELSE IF ~e.pull_request.present THEN "Failed"
    ELSE IF e.action = "closed" /\ PrMerged(e.pull_request)
        THEN HandlePullRequestClosedStart(e.pull_request, environment)
    ELSE IF ~ValidateRulesetLogged(e.pull_request, infoThrows)
        THEN IF CreateOctokitClientStart(environment) = "throw"
                 THEN "throwConfig" ELSE "tokenExchangeSimple"
    ELSE "Skipped"
HandlePullRequestStart(e, environment) ==
    HandlePullRequestStartLogged(e, environment, FALSE)

\* the branch processWebhook takes after the dedup gate
DispatchAnyKind(e) ==
    IF e.action = "closed" /\ e.pull_request.present /\ PrMerged(e.pull_request)
        THEN "handle" ELSE "skip"
Dispatch(e) ==
    IF e.event = "pull_request"
        THEN IF e.action = "closed" /\ e.pull_request.present /\ PrMerged(e.pull_request)
                 THEN "handle" ELSE "skip"
    ELSE IF e.event = "protected_branch" /\ e.action = "policy_override"
        THEN "policy"
    ELSE "nohandler"

\* processWebhook after the gate, up to its first await
ProcessWebhookStart(e, environment) ==
    IF Dispatch(e) = "handle" THEN HandlePullRequestStart(e, environment)
    ELSE "Skipped"

\* the status the route answers with; next is how far processWebhook gets
\* before its first await.  202 is sent before processWebhook is called.
RouteStatusAfterProcessing(e, next) ==
    IF ~e.hasBody \/ next \in {"Failed", "throwBase", "throwConfig"} THEN 500 ELSE 202
RouteStatus(e, next) == IF ~e.hasBody THEN 500 ELSE 202

\* error: what made the run give up; propagated: how far beyond
\* handlePullRequest the exception went; octokit: the session the handler
\* holds (0 for none); sessions: the sessions its API calls were made with
NewRun(e) ==
    [ev |-> e, pc |-> "done", outcome |-> "pending", ack |-> 202,
     arrivedDuring |-> { i \in 1..Len(runs) : runs[i].pc # "done" },
     calls |-> <<>>, simple |-> FALSE, org |-> <<>>, repo |-> <<>>,
     posted |-> FALSE, evicted |-> <<>>,
     error |-> "", propagated |-> "", octokit |-> 0, sessions |-> {}]

\* the run record of a delivery that is over; the handler's locals are gone
EndedStillWaiting(run, outcome, evicted) ==
    [run EXCEPT !.outcome = outcome, !.evicted = evicted]
Ended(run, outcome, evicted) ==
    [run EXCEPT !.pc = "done", !.outcome = outcome, !.evicted = evicted,
                !.org = <<>>, !.repo = <<>>, !.octokit = 0]

\* the run record after an exception raised at step was absorbed by a
\* catch block that ends the run
AbsorbedAsFailure(run, step, evicted) ==
    LET fn  == AbsorbedBy(TryBlocks(step, run.simple))
        out == fn \in {"processWebhook", "route", "host"}
    IN  [Ended(run, "Failed", IF out THEN <<>> ELSE evicted)
            EXCEPT !.propagated = IF out THEN fn ELSE ""]
AbsorbedAsCompleted(run, step, evicted) ==
    LET fn  == AbsorbedBy(TryBlocks(step, run.simple))
        out == fn \in {"processWebhook", "route", "host"}
    IN  [Ended(run, "Completed", IF out THEN <<>> ELSE evicted)
            EXCEPT !.propagated = IF out THEN fn ELSE ""]
Absorbed(run, step, evicted) ==
    LET fn  == AbsorbedBy(TryBlocks(step, run.simple))
        out == fn \in {"processWebhook", "route", "host"}
    IN  [Ended(run, IF fn = "postCombinedRulesetBypassComment"
                        THEN "Completed" ELSE "Failed",
               IF out THEN <<>> ELSE evicted)
            EXCEPT !.propagated = IF out THEN fn ELSE ""]

\* the run awaits an external call; every call but the token exchange is
\* made with the octokit client the handler holds
IssueCommentFirst(run, pc, call) ==
    [run EXCEPT !.pc = IF call = "orgQuery" THEN "post" ELSE pc,
                !.calls = Append(@, IF call = "orgQuery" THEN "createComment" ELSE call),
                !.sessions = IF call = "tokenExchange" THEN @ ELSE @ \cup {run.octokit}]
Issue(run, pc, call) ==
    [run EXCEPT !.pc = pc, !.calls = Append(@, call),
                !.sessions = IF call = "tokenExchange" THEN @ ELSE @ \cup {run.octokit}]

\* the X-Hub-Signature-256 header of a request: the HMAC-SHA256 of the raw
\* body under the secret, another digest of the same length, a value of
\* another length, or no header
Signatures == {"valid", "wrong", "malformed", "none"}

\* verifyGitHubWebhook: "next" or the status it answers with;
\* crypto.timingSafeEqual throws on buffers of different length
VerifyGitHubWebhook(test, webhookSecret, rawBody, signature) ==
    IF test \/ ~webhookSecret \/ ~rawBody \/ signature = "none" THEN "next"
    ELSE IF signature = "malformed" THEN "500"
    ELSE IF signature = "valid" THEN "next"
    ELSE "401"

\* a deployment without GITHUB_WEBHOOK_SECRET, no request recorded
NoSecret == [webhookSecret |-> FALSE, test |-> FALSE, log |-> <<>>]

\* no pass under examination
NoProbe == [stage |-> "off"]

\* a pass of handlePullRequestClosed for merge commit sha about to query
\* the rule suites, with the answers the remote will give
NewProbe(sha, orgResponse, repoResponse) ==
    [stage |-> "start", mergeCommitSha |-> sha,
     orgResponse |-> orgResponse, repoResponse |-> repoResponse,
     requests |-> <<>>, orgReturn |-> [raised |-> FALSE, list |-> <<>>],
     repoReturn |-> [raised |-> FALSE, list |-> <<>>],
     org |-> <<>>, repo |-> <<>>, bypassFound |-> FALSE, totalBypasses |-> 0,
     sections |-> {}]

(* ------------------------------ actions -------------------------------- *)

Init ==
    /\ processedWebhooks = <<>>
    /\ runs = <<>>
    /\ comments = <<>>
    /\ env \in Environments
    /\ probe = NoProbe
    /\ admission = NoSecret

\* POST /webhook: the route handler and processWebhook up to the first await
Submit(e) ==
    /\ UNCHANGED << comments, env, probe >>
    /\ IF ~e.hasBody
         THEN \* req.body.action throws, the route answers 500
              /\ runs' = Append(runs, [Ended(NewRun(e), "Failed", <<>>)
                                           EXCEPT !.ack = RouteStatus(e, "Failed")])
              /\ UNCHANGED processedWebhooks
       ELSE IF Has(processedWebhooks, WebhookHash(e))
         THEN /\ runs' = Append(runs, [Ended(NewRun(e), "Deduplicated", <<>>)
                                           EXCEPT !.ack = RouteStatus(e, "Deduplicated")])
              /\ UNCHANGED processedWebhooks
       ELSE LET pw   == GateAdd(processedWebhooks, WebhookHash(e))
                next == ProcessWebhookStart(e, env)
                new  == [NewRun(e) EXCEPT !.ack = RouteStatus(e, next)]
                run  == [new EXCEPT
                            !.simple = ~(e.action = "closed" /\ PrMerged(e.pull_request))]
            IN  IF next \in {"tokenExchange", "tokenExchangeSimple"}
                  THEN /\ processedWebhooks' = pw
                       /\ runs' = Append(runs,
                              [Issue(new, "auth", "tokenExchange")
                                  EXCEPT !.simple = (next = "tokenExchangeSimple")])
                ELSE IF next \in {"throwBase", "throwConfig"}
                  THEN LET step == IF next = "throwBase" THEN "base" ELSE "config"
                       IN  /\ processedWebhooks' =
                                  IF ReachesCleanUp(step, run.simple) THEN CleanUp(pw) ELSE pw
                           /\ runs' = Append(runs,
                                  [Absorbed(run, step, Evicted(pw))
                                      EXCEPT !.error = step])
                  ELSE /\ processedWebhooks' = CleanUp(pw)
                       /\ runs' = Append(runs, Ended(new, next, Evicted(pw)))

\* a request to a deployment without webhook secret: verifyGitHubWebhook
\* passes it on unexamined
Deliver(e) ==
    /\ Submit(e)
    /\ UNCHANGED admission

\* a request with body e and signature header sig: the body parser's verify
\* callback, verifyGitHubWebhook and, when that calls next, the route
Receive(e, sig) ==
    LET rawBody   == e.hasBody /\ admission.webhookSecret
        signature == IF rawBody THEN sig ELSE "none"
        verdict   == VerifyGitHubWebhook(admission.test, admission.webhookSecret,
                                         rawBody, signature)
    IN  IF verdict = "next"
          THEN /\ Submit(e)
               /\ admission' = [admission EXCEPT !.log = Append(@,
                      [sig |-> sig, hasBody |-> e.hasBody,
                       status |-> runs'[Len(runs')].ack, run |-> Len(runs')])]
          ELSE /\ UNCHANGED << processedWebhooks, runs, comments, env, probe >>
               /\ admission' = [admission EXCEPT !.log = Append(@,
                      [sig |-> sig, hasBody |-> e.hasBody,
                       status |-> IF verdict = "401" THEN 401 ELSE 500, run |-> 0])]

\* the run leaves handlePullRequest and processWebhook trims the set
Finish(i, run, outcome) ==
    /\ runs' = [runs EXCEPT ![i] = Ended(run, outcome, Evicted(processedWebhooks))]
    /\ processedWebhooks' = CleanUp(processedWebhooks)

\* an exception raised at step ends run i
RaiseRollingBack(i, run, step, error) ==
    /\ runs' = [runs EXCEPT ![i] =
           [Absorbed(run, step, Evicted(processedWebhooks)) EXCEPT !.error = error]]
    /\ processedWebhooks' =
           SelectSeq(processedWebhooks, LAMBDA k : k # << "md5", WebhookId(run.ev) >>)
Raise(i, run, step, error) ==
    /\ runs' = [runs EXCEPT ![i] =
           [Absorbed(run, step, Evicted(processedWebhooks)) EXCEPT !.error = error]]
    /\ processedWebhooks' =
           IF ReachesCleanUp(step, run.simple)
               THEN CleanUp(processedWebhooks) ELSE processedWebhooks

\* auth({type: "installation"}) settles; with a token createOctokitClient
\* returns a new Octokit to the handler
AuthReturn(i, res) ==
    /\ runs[i].pc = "auth"
    /\ UNCHANGED << comments, env, probe, admission >>
    /\ IF res # "token"
         THEN Raise(i, runs[i], "tokenExchange", res)
       ELSE IF runs[i].simple /\ ~runs[i].ev.pull_request.hasBase
         THEN Raise(i, runs[i], "base", "base")
       ELSE /\ UNCHANGED processedWebhooks
            /\ runs' = [runs EXCEPT ![i] =
                   LET run == [@ EXCEPT !.octokit = MintToken(i)]
                   IN  IF run.simple THEN Issue(run, "post", "createComment")
                       ELSE Issue(run, "orgq", "orgQuery")]

\* the organization-level octokit.request settles
OrgReturn(i, resp) ==
    /\ runs[i].pc = "orgq"
    \* an app without the organization set-up gets no rule suites from it
    /\ env.orgLevel \/ ~resp.ok
    /\ UNCHANGED << comments, env, probe, admission >>
    /\ LET r == CheckBypassedRuleSuites(resp, runs[i].ev.pull_request.merge_commit_sha)
       IN  IF QueryAborts(r, "orgQuery")
             THEN Raise(i, runs[i], "orgQuery", "orgQuery")
             ELSE /\ UNCHANGED processedWebhooks
                  /\ runs' = [runs EXCEPT ![i] =
                         Issue([@ EXCEPT !.org = ScopeResult(r)], "repoq", "repoQuery")]

\* the repository-level octokit.request settles
RepoReturn(i, resp) ==
    /\ runs[i].pc = "repoq"
    /\ UNCHANGED << comments, env, probe, admission >>
    /\ LET r   == CheckBypassedRuleSuites(resp, runs[i].ev.pull_request.merge_commit_sha)
           run == [runs[i] EXCEPT !.repo = ScopeResult(r)]
       IN  IF QueryAborts(r, "repoQuery")
             THEN Raise(i, runs[i], "repoQuery", "repoQuery")
           ELSE IF BypassFound(run.org, run.repo)
             THEN /\ runs' = [runs EXCEPT ![i] = Issue(run, "post", "createComment")]
                  /\ UNCHANGED processedWebhooks
             ELSE Finish(i, run, "Completed")

\* the comment posted by run i
CommentSwapped(i, run) ==
    [owner |-> run.ev.pull_request.full_name[2],
     repo |-> run.ev.pull_request.full_name[1],
     issue_number |-> run.ev.pull_request.number,
     totalBypasses |-> TotalBypasses(run.org, run.repo),
     run |-> i]
CommentToLatest(i, run) ==
    [owner |-> runs[Len(runs)].ev.pull_request.full_name[1],
     repo |-> runs[Len(runs)].ev.pull_request.full_name[2],
     issue_number |-> runs[Len(runs)].ev.pull_request.number,
     totalBypasses |-> TotalBypasses(run.org, run.repo),
     run |-> i]
Comment(i, run) ==
    [owner |-> run.ev.pull_request.full_name[1],
     repo |-> run.ev.pull_request.full_name[2],
     issue_number |-> run.ev.pull_request.number,
     totalBypasses |-> TotalBypasses(run.org, run.repo),
     run |-> i]

\* octokit.issues.createComment settles
PostReturn(i, ok) ==
    /\ runs[i].pc = "post"
    /\ UNCHANGED << env, probe, admission >>
    /\ IF ok
         THEN /\ comments' = Append(comments, Comment(i, runs[i]))
              /\ Finish(i, [runs[i] EXCEPT !.posted = TRUE], "Completed")
         ELSE /\ UNCHANGED comments
              /\ Raise(i, runs[i], "createComment", "createComment")

Returns ==
    \/ \E i \in 1..Len(runs), res \in AuthResults : AuthReturn(i, res)
    \/ \E i \in 1..Len(runs), resp \in QueryResponses : OrgReturn(i, resp)
    \/ \E i \in 1..Len(runs), resp \in QueryResponses : RepoReturn(i, resp)
    \/ \E i \in 1..Len(runs), ok \in BOOLEAN : PostReturn(i, ok)

Next ==
    \/ \E e \in Events : Len(runs) < MaxDeliveries /\ Deliver(e)
    \/ Returns

Spec == Init /\ [][Next]_vars

\* the external call run i waits for settles: the promise it awaits is
\* resolved or rejected
ReturnsOf(i) ==
    /\ i \in 1..Len(runs)
    /\ \/ \E res \in AuthResults : AuthReturn(i, res)
       \/ \E resp \in QueryResponses : OrgReturn(i, resp)
       \/ \E resp \in QueryResponses : RepoReturn(i, resp)
       \/ \E ok \in BOOLEAN : PostReturn(i, ok)

\* the deliveries of SpecReturning: two merged pull requests, an event
\* that needs no call and a request without a parsed body
ReturningEvents ==
    { e \in Events : e.deliveryId \in {"d1", "d3", "d4", "d11"} }

NextReturning ==
    \/ \E e \in ReturningEvents : Len(runs) < MaxPipelines /\ Deliver(e)
    \/ Returns

\* every external call a run issues returns or fails in the end
SpecReturning ==
    Init /\ [][NextReturning]_vars /\ \A i \in 1..MaxPipelines : WF_vars(ReturnsOf(i))

NextRedelivery ==
    \/ \E e \in RedeliveryEvents : Len(runs) < MaxRedeliveries /\ Deliver(e)
    \/ Returns

SpecRedelivery == Init /\ [][NextRedelivery]_vars

\* a burst of deliveries
NextBurst ==
    \/ \E e \in BurstEvents : Len(runs) < MaxBurst /\ Deliver(e)
    \/ Returns

\* a deployment with complete credentials and no organization set-up
InitBurst == Init /\ ~env.orgLevel

SpecBurst == InitBurst /\ [][NextBurst]_vars

\* the deliveries of SpecAdmission
AdmissionEvents ==
    { e \in Events : e.deliveryId \in {"d1", "d4", "d11"} }

InitAdmission ==
    /\ processedWebhooks = <<>>
    /\ runs = <<>>
    /\ comments = <<>>
    /\ env = [appId |-> TRUE, installationId |-> TRUE, privateKey |-> TRUE,
              orgLevel |-> FALSE]
    /\ probe = NoProbe
    /\ admission \in { [webhookSecret |-> sec, test |-> t, log |-> <<>>] :
                          sec \in BOOLEAN, t \in BOOLEAN }

\* requests with and without signature reach the /webhook endpoint
NextAdmission ==
    \/ \E e \in AdmissionEvents, sig \in Signatures :
           Len(admission.log) < MaxRequests /\ Receive(e, sig)
    \/ Returns

SpecAdmission == InitAdmission /\ [][NextAdmission]_vars

(* -------------------- one aggregation pass, step by step ---------------- *)

InitAggregate ==
    /\ processedWebhooks = <<>>
    /\ runs = <<>>
    /\ comments = <<>>
    /\ env = [appId |-> TRUE, installationId |-> TRUE, privateKey |-> TRUE,
              orgLevel |-> TRUE]
    /\ admission = NoSecret
    /\ probe \in { NewProbe(sha, o, r) :
                      sha \in MergeCommits, o \in AllResponses, r \in AllResponses }

\* the organization-level query of handlePullRequestClosed
AggregateOrg ==
    /\ probe.stage = "start"
    /\ UNCHANGED << processedWebhooks, runs, comments, env, admission >>
    /\ LET r == CheckBypassedRuleSuites(probe.orgResponse, probe.mergeCommitSha)
       IN  probe' = [probe EXCEPT
               !.stage = IF QueryAborts(r, "orgQuery") THEN "aborted" ELSE "org",
               !.requests = Append(@, "org"),
               !.orgReturn = r,
               !.org = ScopeResult(r)]

\* the repository-level query of handlePullRequestClosed
AggregateRepo ==
    /\ probe.stage = "org"
    /\ UNCHANGED << processedWebhooks, runs, comments, env, admission >>
    /\ LET r == CheckBypassedRuleSuites(probe.repoResponse, probe.mergeCommitSha)
       IN  probe' = [probe EXCEPT
               !.stage = IF QueryAborts(r, "repoQuery") THEN "aborted" ELSE "repo",
               !.requests = Append(@, "repo"),
               !.repoReturn = r,
               !.repo = ScopeResult(r),
               !.bypassFound = BypassFound(probe.org, ScopeResult(r))]

\* if (bypassFound) postCombinedRulesetBypassComment(...) else log
AggregateReport ==
    /\ probe.stage = "repo"
    /\ UNCHANGED << processedWebhooks, runs, comments, env, admission >>
    /\ probe' = IF probe.bypassFound
                    THEN [probe EXCEPT !.stage = "comment",
                              !.totalBypasses = TotalBypasses(probe.org, probe.repo),
                              !.sections = Sections(probe.org, probe.repo)]
                    ELSE [probe EXCEPT !.stage = "clean"]

NextAggregate ==
    \/ AggregateOrg
    \/ AggregateRepo
    \/ AggregateReport

SpecAggregate == InitAggregate /\ [][NextAggregate]_vars

(* ------------------------ rendering of the records --------------------- *)

\* A commit identifier is a sequence of characters, << >> when the field
\* is missing, null or empty; a label or a name is a string, "" when the
\* field is missing, null or empty.  The code tests all of them for
\* truthiness.
ShortShaLength == 7
Unknown == << "U", "n", "k", "n", "o", "w", "n" >>
ShaValues ==
    { << >>,
      << "a", "b", "c", "d", "e" >>,
      << "a", "b", "c", "d", "e", "f", "0", "1", "2" >> }

\* the rule suites the remote API can answer with
RuleSuites ==
    [ before_sha : { << >>, << "9", "8", "7", "6", "5", "4", "3", "2", "1", "0" >> },
      after_sha  : ShaValues,
      status     : { "", "bypass_status" },
      result     : { "", "fail" },
      actor_name : { "", "alice" },
      pushed_at  : { "", "2025-05-01T10:00:00Z" } ]

\* String.prototype.substring(start, end) with 0 <= start <= end
Substring(str, start, end) ==
    SubSeq(str, start + 1, Min(end, Len(str)))

\* new Date(pushed_at).toLocaleString(): the instant in the host's locale
ToLocaleString(pushedAt) == << "locale", pushedAt >>

\* the four lines formatRuleSuites writes for one rule suite
FormatRuleSuiteResultFirst(ruleSuite) ==
    [ afterSha  |-> IF ruleSuite.after_sha # << >>
                      THEN Substring(ruleSuite.after_sha, 0, ShortShaLength) ELSE Unknown,
      beforeSha |-> IF ruleSuite.before_sha # << >>
                      THEN Substring(ruleSuite.before_sha, 0, ShortShaLength) ELSE Unknown,
      actorName |-> IF ruleSuite.actor_name # "" THEN ruleSuite.actor_name ELSE "Unknown",
      status    |-> IF ruleSuite.result # "" THEN ruleSuite.result
                    ELSE IF ruleSuite.status # "" THEN ruleSuite.status
                    ELSE "bypass",
      pushedAt  |-> IF ruleSuite.pushed_at # ""
                      THEN ToLocaleString(ruleSuite.pushed_at) ELSE << "Unknown" >> ]
FormatRuleSuite(ruleSuite) ==
    [ afterSha  |-> IF ruleSuite.after_sha # << >>
                      THEN Substring(ruleSuite.after_sha, 0, ShortShaLength) ELSE Unknown,
      beforeSha |-> IF ruleSuite.before_sha # << >>
                      THEN Substring(ruleSuite.before_sha, 0, ShortShaLength) ELSE Unknown,
      actorName |-> IF ruleSuite.actor_name # "" THEN ruleSuite.actor_name ELSE "Unknown",
      status    |-> IF ruleSuite.status # "" THEN ruleSuite.status
                    ELSE IF ruleSuite.result # "" THEN ruleSuite.result
                    ELSE "bypass",
      pushedAt  |-> IF ruleSuite.pushed_at # ""
                      THEN ToLocaleString(ruleSuite.pushed_at) ELSE << "Unknown" >> ]

\* formatRuleSuites: one block per rule suite, in the order of the list
FormatRuleSuites(ruleSuites) ==
    [ n \in 1..Len(ruleSuites) |-> FormatRuleSuite(ruleSuites[n]) ]

InitRender ==
    /\ processedWebhooks = <<>>
    /\ runs = <<>>
    /\ comments = <<>>
    /\ env = [appId |-> TRUE, installationId |-> TRUE, privateKey |-> TRUE,
              orgLevel |-> TRUE]
    /\ admission = NoSecret
    /\ probe \in { [stage |-> "suites", ruleSuites |-> l, formatted |-> << >>] :
                      l \in UNION { [1..n -> RuleSuites] : n \in 0..MaxSuites } }

\* formatRuleSuites(ruleSuites)
Render ==
    /\ probe.stage = "suites"
    /\ UNCHANGED << processedWebhooks, runs, comments, env, admission >>
    /\ probe' = [probe EXCEPT !.stage = "formatted",
                              !.formatted = FormatRuleSuites(probe.ruleSuites)]

NextRender == Render

SpecRender == InitRender /\ [][NextRender]_vars

(* ------------------- handlePullRequest called directly ------------------ *)

\* handlePullRequest is exported and may be handed any payload
InitHandler ==
    /\ processedWebhooks = <<>>
    /\ runs = <<>>
    /\ comments = <<>>
    /\ env \in Environments
    /\ admission = NoSecret
    /\ probe \in { [stage |-> "payload", ev |-> e, infoThrows |-> t,
                     bypassed |-> FALSE, next |-> ""] :
                      e \in Events, t \in BOOLEAN }

\* handlePullRequest(context) up to its first await
Handle ==
    /\ probe.stage = "payload"
    /\ UNCHANGED << processedWebhooks, runs, comments, env, admission >>
    /\ probe' = [probe EXCEPT
           !.stage = "handled",
           !.bypassed = /\ probe.ev.hasBody /\ probe.ev.pull_request.present
                        /\ ~(probe.ev.action = "closed" /\ PrMerged(probe.ev.pull_request))
                        /\ ~ValidateRulesetLogged(probe.ev.pull_request, probe.infoThrows),
           !.next = HandlePullRequestStartLogged(probe.ev, env, probe.infoThrows)]

NextHandler == Handle

SpecHandler == InitHandler /\ [][NextHandler]_vars

(* ----------------------------- properties ------------------------------ *)

\* the DedupKey under which run i was gated
KeyOf(i) == << "md5", WebhookId(runs[i].ev) >>

\* comments created by the runs of set S
CommentsBy(S) == { c \in 1..Len(comments) : comments[c].run \in S }

\* comments created for DedupKey k
CommentsFor(k) == { c \in 1..Len(comments) : KeyOf(comments[c].run) = k }

\* how often DedupKey k was deleted by a clean-up
EvictionsOf(k) ==
    UNION { { << i, j >> : j \in { x \in DOMAIN runs[i].evicted : runs[i].evicted[x] = k } } :
            i \in 1..Len(runs) }

InSet(pw, k) == \E j \in 1..Len(pw) : pw[j] = k

\* C1: the same event delivered a second time right after its first run
\* has ended with a comment posted is dropped at the dedup gate, and the
\* two deliveries together leave exactly one comment.
C1_SequentialIdempotence ==
    \A n \in 1..(Len(runs) - 1) :
        ( /\ runs[n + 1].ev = runs[n].ev
          /\ runs[n].posted
          /\ n \notin runs[n + 1].arrivedDuring )
        => /\ runs[n + 1].outcome = "Deduplicated"
           /\ runs[n + 1].pc = "done"
           /\ runs[n + 1].calls = <<>>
           /\ Cardinality(CommentsBy({n, n + 1})) = 1

C1_Witness ==
    \E n \in 1..(Len(runs) - 1) :
        /\ runs[n + 1].ev = runs[n].ev
        /\ runs[n].posted
        /\ n \notin runs[n + 1].arrivedDuring
        /\ runs[n + 1].outcome = "Deduplicated"

\* C2: the same event delivered a second time while its first run is still
\* waiting for a network call: the first passed the gate, the second does
\* not, and the two together leave at most one comment.
C2_ConcurrentIdempotence ==
    \A n \in 1..(Len(runs) - 1) :
        ( /\ runs[n + 1].ev = runs[n].ev
          /\ n \in runs[n + 1].arrivedDuring )
        => /\ runs[n].calls # <<>>
           /\ runs[n + 1].outcome = "Deduplicated"
           /\ runs[n + 1].calls = <<>>
           /\ Cardinality(CommentsBy({n, n + 1})) <= 1

C2_Witness ==
    \E n \in 1..(Len(runs) - 1) :
        /\ runs[n + 1].ev = runs[n].ev
        /\ n \in runs[n + 1].arrivedDuring
        /\ runs[n + 1].outcome = "Deduplicated"
        /\ runs[n].posted

\* C3 as stated: whatever happens in between, evictions included, no
\* DedupKey ever gets a second comment.
C3_AtMostOneCommentPerKey ==
    \A c, d \in 1..Len(comments) :
        c # d => KeyOf(comments[c].run) # KeyOf(comments[d].run)

\* C3 amended: a DedupKey gets a further comment only after the key was
\* evicted from the dedup set; the comments of a key never outnumber one
\* plus the evictions of that key.
C3_AtMostOneCommentPerRetention ==
    \A i \in 1..Len(runs) :
        Cardinality(CommentsFor(KeyOf(i))) <= 1 + Cardinality(EvictionsOf(KeyOf(i)))

C3_Witness ==
    \E i \in 1..Len(runs) :
        /\ Cardinality(CommentsFor(KeyOf(i))) = 2
        /\ Cardinality(EvictionsOf(KeyOf(i))) >= 1

\* C4: one merged pull request (repository, number, merge commit) gets at
\* most one comment over all its deliveries, whatever their delivery ids.
C4_OnceCommentPerBypass ==
    \A c, d \in 1..Len(comments) :
        c # d =>
            LET p == runs[comments[c].run].ev.pull_request
                q == runs[comments[d].run].ev.pull_request
            IN  ~ ( /\ p.full_name = q.full_name
                    /\ p.number = q.number
                    /\ p.merge_commit_sha = q.merge_commit_sha )

\* C5: when the first external call of a run (the token exchange) is
\* issued, the run's DedupKey is in the dedup set, although nothing of the
\* run has succeeded yet.
C5_KeyInsertedBeforeFirstCall ==
    [][ ( /\ Len(runs') = Len(runs) + 1
          /\ runs'[Len(runs')].calls # <<>> )
        => /\ InSet(processedWebhooks', << "md5", WebhookId(runs'[Len(runs')].ev) >>)
           /\ runs'[Len(runs')].calls = << "tokenExchange" >>
           /\ runs'[Len(runs')].outcome = "pending" ]_vars

C5_Witness ==
    \E i \in 1..Len(runs) :
        /\ runs[i].pc = "auth"
        /\ runs[i].calls = << "tokenExchange" >>
        /\ InSet(processedWebhooks, KeyOf(i))

\* a pull_request delivery that is not a merged close
NotMergedClose(e) ==
    /\ e.hasBody
    /\ e.event = "pull_request"
    /\ (e.action # "closed" \/ ~e.pull_request.present \/ ~e.pull_request.merged)

\* C6: a pull_request event that is not closed, or not merged, makes no
\* external call: no token exchange, no query, no comment.
C6_NoCallUnlessMergedClose ==
    \A i \in 1..Len(runs) :
        NotMergedClose(runs[i].ev)
        => /\ runs[i].calls = <<>>
           /\ runs[i].pc = "done"
           /\ CommentsBy({i}) = {}

C6_Witness ==
    \E i, j \in 1..Len(runs) :
        /\ NotMergedClose(runs[i].ev) /\ runs[i].ev.action = "closed"
        /\ runs[i].ev.pull_request.present
        /\ runs[i].outcome = "Skipped"
        /\ NotMergedClose(runs[j].ev) /\ runs[j].ev.action # "closed"
        /\ runs[j].outcome = "Skipped"

\* C7: handling an event that is skipped (not closed, or not merged)
\* leaves the dedup set as it was.
C7_SkippedRecordsNoKey ==
    [][ ( /\ Len(runs') = Len(runs) + 1
          /\ NotMergedClose(runs'[Len(runs')].ev) )
        => processedWebhooks' = processedWebhooks ]_vars

\* a merged close without a merge commit
MergedWithoutCommit(e) ==
    /\ e.hasBody
    /\ e.event = "pull_request"
    /\ e.action = "closed"
    /\ e.pull_request.present
    /\ e.pull_request.merged
    /\ e.pull_request.merge_commit_sha = ""

\* C8: a merged pull_request.closed event with a null or empty merge
\* commit is skipped before the credential exchange: no external call.
C8_NoCallWithoutMergeCommit ==
    \A i \in 1..Len(runs) :
        MergedWithoutCommit(runs[i].ev)
        => /\ runs[i].calls = <<>>
           /\ runs[i].pc = "done"
           /\ runs[i].outcome \in {"Skipped", "Deduplicated"}
           /\ CommentsBy({i}) = {}

C8_Witness ==
    \E i \in 1..Len(runs) :
        /\ MergedWithoutCommit(runs[i].ev)
        /\ runs[i].outcome = "Skipped"
        /\ env.appId /\ env.installationId /\ env.privateKey

\* C9: a delivery whose DedupKey is in the dedup set on arrival ends as
\* Deduplicated at once, makes no external call and changes nothing; a run
\* that has ended never resumes.
C9_DuplicateIsTerminal ==
    [][ /\ ( /\ Len(runs') = Len(runs) + 1
             /\ runs'[Len(runs')].ev.hasBody
             /\ InSet(processedWebhooks, << "md5", WebhookId(runs'[Len(runs')].ev) >>) )
           => /\ runs'[Len(runs')].outcome = "Deduplicated"
              /\ runs'[Len(runs')].pc = "done"
              /\ runs'[Len(runs')].calls = <<>>
              /\ processedWebhooks' = processedWebhooks
              /\ comments' = comments
        /\ \A i \in 1..Len(runs) :
               runs[i].pc = "done" => runs'[i] = runs[i] ]_vars

C9_Witness ==
    \E i \in 1..Len(runs) :
        /\ runs[i].outcome = "Deduplicated"
        /\ runs[i].ack = 202
        /\ \E j \in 1..(i - 1) : runs[j].ev = runs[i].ev /\ runs[j].calls # <<>>

\* a delivery without payload, without pull_request object, or of a kind
\* that has no handler
Unprocessable(e) ==
    \/ ~e.hasBody
    \/ ~e.pull_request.present
    \/ e.event \notin {"pull_request", "protected_branch"}

C11_NoFailureEscapes ==
    \A i \in 1..Len(runs) :
        runs[i].ev.hasBody
        => /\ runs[i].propagated = ""
           /\ runs[i].ack = 202
           /\ runs[i].error # ""
              => /\ runs[i].pc = "done"
                 /\ runs[i].outcome \in {"Failed", "Completed"}
                 /\ (runs[i].outcome = "Completed") = (runs[i].error = "createComment")

C11_Witness ==
    \E i, j \in 1..Len(runs) :
        /\ runs[i].error = "transient" /\ runs[i].outcome = "Failed"
        /\ runs[i].calls = << "tokenExchange" >>
        /\ runs[j].error = "createComment" /\ runs[j].outcome = "Completed"
        /\ ~runs[j].posted

\* the request of a scope was rejected
ScopeFailed(resp) == ~resp.ok

\* how many records of a scope's answer carry the merge commit
Matching(resp, sha) ==
    IF resp.ok /\ resp.shape \in {"array", "wrapped"}
        THEN Len(SelectSeq(resp.list, LAMBDA x : x.after_sha = sha))
        ELSE 0

\* C12: aggregation isolation.  When one scope's query fails (the client
\* returns after an error, or raises) and the other scope's answer holds
\* k >= 1 records of the merge commit, both queries are made, the bypass
\* flag is true and the comment reports exactly k; either scope may be the
\* failing one.
C12_AggregationIsolation ==
    LET ko == Matching(probe.orgResponse, probe.mergeCommitSha)
        kr == Matching(probe.repoResponse, probe.mergeCommitSha)
    IN  /\ probe.stage # "aborted"
        /\ probe.stage \in {"repo", "comment", "clean"}
           => /\ ( ScopeFailed(probe.orgResponse) /\ kr >= 1 )
                 => /\ probe.requests = << "org", "repo" >>
                    /\ probe.bypassFound
                    /\ probe.stage # "clean"
                    /\ probe.stage = "comment" => probe.totalBypasses = kr
              /\ ( ScopeFailed(probe.repoResponse) /\ ko >= 1 )
                 => /\ probe.requests = << "org", "repo" >>
                    /\ probe.bypassFound
                    /\ probe.stage # "clean"
                    /\ probe.stage = "comment" => probe.totalBypasses = ko

C12_Witness ==
    /\ probe.stage = "comment"
    /\ probe.orgResponse.status = 404
    /\ probe.orgReturn.raised
    /\ Matching(probe.repoResponse, probe.mergeCommitSha) = 2
    /\ probe.totalBypasses = 2

\* C13: once both scopes have been queried, the bypass flag is true exactly
\* when the answers of the two scopes together hold at least one record
\* whose after_sha is the merge commit; a scope whose request failed
\* contributes no record.
C13_OverallIffMatchingRecords ==
    probe.stage \in {"repo", "comment", "clean"}
    => /\ probe.bypassFound
          = ( Matching(probe.orgResponse, probe.mergeCommitSha)
              + Matching(probe.repoResponse, probe.mergeCommitSha) > 0 )
       /\ ScopeFailed(probe.orgResponse) => probe.org = <<>>
       /\ ScopeFailed(probe.repoResponse) => probe.repo = <<>>
       /\ probe.stage = "comment" => probe.bypassFound
       /\ probe.stage = "clean" => ~probe.bypassFound

C13_Witness ==
    /\ probe.stage = "comment"
    /\ probe.bypassFound
    /\ Matching(probe.orgResponse, probe.mergeCommitSha) = 1
    /\ Len(probe.orgResponse.list) = 2
    /\ Matching(probe.repoResponse, probe.mergeCommitSha) = 0
    /\ Len(probe.repoResponse.list) = 1
    /\ probe.repoResponse.shape = "array"

\* C14: the policy query client returns an empty list and never raises
\* when its request fails, whatever the failure: 403, 404 or a network
\* failure without a status.
C14_ClientNeverRaises ==
    /\ ( probe.stage \in {"org", "repo", "comment", "clean"}
         /\ ScopeFailed(probe.orgResponse) )
       => ( ~probe.orgReturn.raised /\ probe.orgReturn.list = <<>> )
    /\ ( probe.stage \in {"repo", "comment", "clean"}
         /\ ScopeFailed(probe.repoResponse) )
       => ( ~probe.repoReturn.raised /\ probe.repoReturn.list = <<>> )

\* the requests made so far for a scope
RequestsOf(scope) ==
    Len(SelectSeq(probe.requests, LAMBDA s : s = scope))

\* C15: a scope whose request was answered 404 is asked a second time, on
\* the legacy endpoint path, before the client gives up: two requests have
\* been made for that scope once its query is over.
C15_LegacyEndpointAttempted ==
    /\ ( probe.stage \in {"org", "repo", "comment", "clean"}
         /\ probe.orgResponse.status = 404 )
       => RequestsOf("org") = 2
    /\ ( probe.stage \in {"repo", "comment", "clean"}
         /\ probe.repoResponse.status = 404 )
       => RequestsOf("repo") = 2

\* the records of list that carry sha, in the order of list
RecordsOf(list, sha) == SelectSeq(list, LAMBDA x : x.after_sha = sha)

\* C16: filtering correctness.  For a scope answered with a list of
\* records, the client's result is exactly the records of that list whose
\* after_sha is the merge commit, in their original order: none with
\* another after_sha is kept, no matching one is dropped.
C16_FilterKeepsExactlyMatching ==
    /\ ( probe.stage \in {"org", "repo", "comment", "clean"}
         /\ probe.orgResponse.ok /\ probe.orgResponse.shape \in {"array", "wrapped"} )
       => /\ ~probe.orgReturn.raised
          /\ probe.orgReturn.list
                 = RecordsOf(probe.orgResponse.list, probe.mergeCommitSha)
          /\ \A n \in 1..Len(probe.orgReturn.list) :
                 probe.orgReturn.list[n].after_sha = probe.mergeCommitSha
    /\ ( probe.stage \in {"repo", "comment", "clean"}
         /\ probe.repoResponse.ok /\ probe.repoResponse.shape \in {"array", "wrapped"} )
       => /\ ~probe.repoReturn.raised
          /\ probe.repoReturn.list
                 = RecordsOf(probe.repoResponse.list, probe.mergeCommitSha)
          /\ \A n \in 1..Len(probe.repoReturn.list) :
                 probe.repoReturn.list[n].after_sha = probe.mergeCommitSha

C16_Witness ==
    /\ probe.stage = "comment"
    /\ probe.mergeCommitSha = "shaA"
    /\ probe.orgResponse.list = << Rec("shaA", "carol"), Rec("shaA", "alice") >>
    /\ probe.orgReturn.list = << Rec("shaA", "carol"), Rec("shaA", "alice") >>
    /\ probe.repoResponse.list = << Rec("shaB", "bob"), Rec("shaA", "alice") >>
    /\ probe.repoReturn.list = << Rec("shaA", "alice") >>

\* C17: response-shape normalization.  A bare list and the same list
\* wrapped under rule_suites give the same query result, whichever scope
\* gets which; a body of any other shape gives the empty result and the
\* client does not raise.
C17_ShapeNormalization ==
    /\ ( probe.stage \in {"repo", "comment", "clean"}
         /\ probe.orgResponse.ok /\ probe.repoResponse.ok
         /\ { probe.orgResponse.shape, probe.repoResponse.shape } = {"array", "wrapped"}
         /\ probe.orgResponse.list = probe.repoResponse.list )
       => probe.orgReturn = probe.repoReturn
    /\ ( probe.stage \in {"org", "repo", "comment", "clean"}
         /\ probe.orgResponse.ok /\ probe.orgResponse.shape = "other" )
       => probe.orgReturn = [raised |-> FALSE, list |-> <<>>]
    /\ ( probe.stage \in {"repo", "comment", "clean"}
         /\ probe.repoResponse.ok /\ probe.repoResponse.shape = "other" )
       => probe.repoReturn = [raised |-> FALSE, list |-> <<>>]

C17_Witness ==
    /\ probe.stage = "comment"
    /\ probe.orgResponse.shape = "array"
    /\ probe.repoResponse.shape = "wrapped"
    /\ probe.orgResponse.list = probe.repoResponse.list
    /\ Len(probe.orgResponse.list) = 2
    /\ Len(probe.orgReturn.list) = 1
    /\ probe.orgReturn = probe.repoReturn

\* how often run i started the token exchange
ExchangesOf(i) ==
    Len(SelectSeq(runs[i].calls, LAMBDA c : c = "tokenExchange"))

\* C18: a transient failure of the token exchange is retried: a run gives
\* up on a transient failure only after three attempts, so one transient
\* failure alone never ends a run.
C18_TransientExchangeRetried ==
    \A i \in 1..Len(runs) :
        runs[i].error = "transient" => ExchangesOf(i) = 3

\* the configuration lacks the app id, the installation id or the key
ConfigurationError ==
    ~(env.appId /\ env.installationId /\ env.privateKey)

\* a delivery whose handling gets as far as createOctokitClient
NeedsSession(e) ==
    /\ e.hasBody
    /\ e.event = "pull_request"
    /\ e.action = "closed"
    /\ e.pull_request.present
    /\ e.pull_request.merged
    /\ e.pull_request.hasBase
    /\ e.pull_request.merge_commit_sha # ""

\* C19: a configuration error fails fast.  With the app id, the
\* installation id or the private key missing, no run ever starts a token
\* exchange (so there is nothing to retry) or any other call, and a run
\* that asked for a client has ended as Failed on the configuration error.
C19_ConfigurationErrorFailsFast ==
    ConfigurationError
    => \A i \in 1..Len(runs) :
           /\ runs[i].calls = <<>>
           /\ runs[i].pc = "done"
           /\ NeedsSession(runs[i].ev)
              => \/ runs[i].outcome = "Deduplicated"
                 \/ runs[i].outcome = "Failed" /\ runs[i].error = "config"

C19_Witness ==
    /\ ~env.privateKey
    /\ \E i \in 1..Len(runs) :
           /\ NeedsSession(runs[i].ev)
           /\ runs[i].outcome = "Failed"
           /\ runs[i].error = "config"
           /\ runs[i].calls = <<>>

\* the calls of run i that need a session
SessionCallsOf(i) ==
    SelectSeq(runs[i].calls, LAMBDA c : c # "tokenExchange")

\* C20: a session is never shared between events.  A run that queries or
\* posts has made its own token exchange first, all its calls use the one
\* session that exchange gave it, no other run holds or uses that session,
\* and a run that has ended holds no session.
C20_SessionNeverShared ==
    \A i \in 1..Len(runs) :
        /\ runs[i].octokit \in {0, i}
        /\ runs[i].sessions \subseteq {i}
        /\ SessionCallsOf(i) # <<>>
           => /\ Head(runs[i].calls) = "tokenExchange"
              /\ ExchangesOf(i) = 1
              /\ runs[i].sessions = {i}
        /\ runs[i].pc = "done" => runs[i].octokit = 0
        /\ \A j \in 1..Len(runs) :
               j # i => /\ runs[i].sessions \cap runs[j].sessions = {}
                        /\ runs[i].octokit # 0 => runs[j].octokit # runs[i].octokit

C20_Witness ==
    \E i, j \in 1..Len(runs) :
        /\ i # j
        /\ runs[i].ev.pull_request = runs[j].ev.pull_request
        /\ runs[i].pc = "repoq" /\ runs[i].octokit # 0
        /\ runs[j].pc = "post" /\ runs[j].octokit # 0
        /\ runs[i].sessions # {} /\ runs[j].sessions # {}

\* whether run i made the call
Called(i, call) == \E n \in 1..Len(runs[i].calls) : runs[i].calls[n] = call

\* C21: scope selection.  A run that gets past its organization step
\* always issues the repository-scope query, and an organization-scope
\* request is made only in a deployment set up for organization-level
\* checking.
C21_OrgQueryOnlyIfConfigured ==
    \A i \in 1..Len(runs) :
        /\ Called(i, "orgQuery") => env.orgLevel
        /\ ( runs[i].pc \in {"repoq", "post"}
             \/ (runs[i].outcome = "Completed" /\ runs[i].calls # <<>>) )
           => Called(i, "repoQuery")

\* how often run i called createComment
PostsOf(i) ==
    Len(SelectSeq(runs[i].calls, LAMBDA c : c = "createComment"))

\* C22: delivery is a single attempt.  A run calls createComment at most
\* once and leaves at most one comment, also when both scopes have
\* records; the comment goes to the owner, repository and pull request
\* number of the run's event; a run whose post failed has made that one
\* call and no other.
C22_SinglePostAttempt ==
    /\ \A i \in 1..Len(runs) :
           /\ PostsOf(i) <= 1
           /\ Cardinality(CommentsBy({i})) <= PostsOf(i)
           /\ runs[i].error = "createComment"
              => PostsOf(i) = 1 /\ runs[i].pc = "done" /\ CommentsBy({i}) = {}
    /\ \A c \in 1..Len(comments) :
           LET pr == runs[comments[c].run].ev.pull_request
           IN  /\ comments[c].owner = pr.full_name[1]
               /\ comments[c].repo = pr.full_name[2]
               /\ comments[c].issue_number = pr.number

C22_Witness ==
    \E i, j \in 1..Len(runs) :
        /\ runs[i].posted /\ PostsOf(i) = 1
        /\ \E c \in CommentsBy({i}) :
               /\ comments[c].totalBypasses = 3
               /\ comments[c].owner = "acme" /\ comments[c].repo = "widgets"
               /\ comments[c].issue_number = "42"
        /\ runs[j].error = "createComment" /\ PostsOf(j) = 1

\* C23: a failed comment post does not fail the event.  A run whose
\* createComment call raised has ended as Completed, the error went no
\* further than the delivery step, and the run's DedupKey is still in the
\* dedup set unless a clean-up has evicted it since.
C23_FailedPostStillCompleted ==
    \A i \in 1..Len(runs) :
        runs[i].error = "createComment"
        => /\ runs[i].pc = "done"
           /\ runs[i].outcome = "Completed"
           /\ runs[i].propagated = ""
           /\ ~runs[i].posted
           /\ \/ InSet(processedWebhooks, KeyOf(i))
              \/ EvictionsOf(KeyOf(i)) # {}

C23_Witness ==
    \E i \in 1..Len(runs) :
        /\ runs[i].error = "createComment"
        /\ runs[i].outcome = "Completed"
        /\ runs[i].calls = << "tokenExchange", "orgQuery", "repoQuery", "createComment" >>
        /\ InSet(processedWebhooks, KeyOf(i))
        /\ comments = <<>>

\* C24: when the two scopes together yield no record of the merge commit,
\* the run completes without delivery.  A run that leaves its repository
\* query either holds at least one record and goes on to post, or ends
\* right there as Completed without a createComment call and without a
\* comment.
C24_NoRecordsNoComment ==
    [][ \A i \in 1..Len(runs) :
            ( runs[i].pc = "repoq" /\ runs'[i].pc # "repoq" )
            => IF Len(runs'[i].org) + Len(runs'[i].repo) > 0
                 THEN runs'[i].pc = "post"
                 ELSE /\ runs'[i].pc = "done"
                      /\ runs'[i].outcome = "Completed"
                      /\ runs'[i].calls = << "tokenExchange", "orgQuery", "repoQuery" >>
                      /\ ~runs'[i].posted
                      /\ comments' = comments ]_vars

C24_Witness ==
    \E i \in 1..Len(runs) :
        /\ runs[i].outcome = "Completed"
        /\ runs[i].error = ""
        /\ runs[i].calls = << "tokenExchange", "orgQuery", "repoQuery" >>
        /\ ~runs[i].posted
        /\ comments = <<>>

\* the runs that wait for an external call
InFlight == { i \in 1..Len(runs) : runs[i].pc # "done" }

\* C25 as stated: whatever the interleaving, many events in flight
\* included, the dedup set never holds more than the retention bound plus
\* one keys.
C25_SetNeverExceedsBoundPlusOne ==
    Len(processedWebhooks) <= RetentionBound + 1

\* C25 amended: a run trims the set only when it ends, so every run in
\* flight may hold one key above the bound; the set never holds more keys
\* than the retention bound plus the number of runs in flight.
C25_SetBoundedByBoundPlusInFlight ==
    Len(processedWebhooks) <= RetentionBound + Cardinality(InFlight)

C25_Witness ==
    /\ Len(processedWebhooks) = RetentionBound + 2
    /\ Cardinality(InFlight) = 2

\* run i ends in this step and its clean-up deletes keys
Evicts(i) ==
    /\ i \in 1..Len(runs')
    /\ runs'[i].evicted # <<>>
    /\ (i > Len(runs) \/ runs[i].pc # "done")

\* the set the clean-up of run i started from
BeforeCleanUp(i) == runs'[i].evicted \o processedWebhooks'

\* the clean-up of run i deleted exactly the oldest keys and kept the rest,
\* the most recently inserted key included
EvictsOldestOnly(i) ==
    /\ \/ BeforeCleanUp(i) = processedWebhooks
       \/ /\ i > Len(runs)
          /\ BeforeCleanUp(i) = Append(processedWebhooks, << "md5", WebhookId(runs'[i].ev) >>)
    /\ Len(runs'[i].evicted) <= EvictCount
    /\ Len(processedWebhooks') >= 1
    /\ processedWebhooks'[Len(processedWebhooks')] = BeforeCleanUp(i)[Len(BeforeCleanUp(i))]
    /\ Has(processedWebhooks', BeforeCleanUp(i)[Len(BeforeCleanUp(i))])

\* the clean-up of run i deleted the key of run i itself
EvictsOwnKey(i) ==
    \E n \in 1..Len(runs'[i].evicted) :
        runs'[i].evicted[n] = << "md5", WebhookId(runs'[i].ev) >>

\* C26 as stated: an eviction removes exactly the oldest keys, never the
\* key of the event that triggered it nor the most recent keys.
C26_EvictionKeepsTriggerAndRecent ==
    [][ \A i \in 1..Len(runs') :
            Evicts(i) => ( EvictsOldestOnly(i) /\ ~EvictsOwnKey(i) ) ]_vars

\* C26 amended: an eviction removes exactly the oldest keys and keeps the
\* most recent ones; the key of the run that triggered it is kept when that
\* run ended without waiting for a call, while a run that waited may find
\* its own key among the oldest and delete it.
C26_EvictionKeepsRecent ==
    [][ \A i \in 1..Len(runs') :
            Evicts(i)
            => /\ EvictsOldestOnly(i)
               /\ i > Len(runs) => ~EvictsOwnKey(i) ]_vars

C26_Witness ==
    \E i \in 1..Len(runs) :
        /\ runs[i].evicted # <<>>
        /\ runs[i].calls = <<>>
        /\ InSet(processedWebhooks, KeyOf(i))
        /\ processedWebhooks[Len(processedWebhooks)] = KeyOf(i)
        /\ \A n \in 1..Len(runs[i].evicted) :
               ~InSet(processedWebhooks, runs[i].evicted[n])

C28_OnlySignedRequestsProcessed ==
    ( admission.webhookSecret /\ ~admission.test )
    => \A n \in 1..Len(admission.log) :
           ( admission.log[n].run # 0 /\ admission.log[n].hasBody )
               => admission.log[n].sig = "valid"

\* the calls run i issued in the step
IssuedInStep(i) ==
    SubSeq(runs'[i].calls, Len(runs[i].calls) + 1, Len(runs'[i].calls))

\* C29: pipeline ordering within one event.  A rule-suite query is issued
\* only by a run whose credential exchange has settled with a client;
\* the repository query is issued when the organization query has
\* settled; createComment is issued only in the step in which the last
\* scope query settles, after both queries, with the overall flag true;
\* and a comment appears only when that createComment settles.
C29_PipelineOrdering ==
    [][ /\ \A i \in 1..Len(runs) :
              /\ IssuedInStep(i) \in { << >>, << "orgQuery" >>, << "repoQuery" >>,
                                       << "createComment" >> }
              /\ IssuedInStep(i) = << "orgQuery" >>
                 => /\ runs[i].pc = "auth" /\ runs[i].octokit = 0
                    /\ runs[i].calls = << "tokenExchange" >>
                    /\ runs'[i].octokit # 0
              /\ IssuedInStep(i) = << "repoQuery" >>
                 => /\ runs[i].pc = "orgq" /\ runs[i].octokit # 0
                    /\ runs[i].calls = << "tokenExchange", "orgQuery" >>
              /\ IssuedInStep(i) = << "createComment" >>
                 => /\ runs[i].pc = "repoq" /\ runs'[i].pc = "post"
                    /\ runs[i].calls = << "tokenExchange", "orgQuery", "repoQuery" >>
                    /\ BypassFound(runs'[i].org, runs'[i].repo)
        /\ Len(comments') > Len(comments)
           => LET c == comments'[Len(comments')]
              IN  /\ runs[c.run].pc = "post"
                  /\ runs[c.run].calls =
                         << "tokenExchange", "orgQuery", "repoQuery", "createComment" >>
                  /\ BypassFound(runs[c.run].org, runs[c.run].repo)
      ]_vars

C29_Witness ==
    \E i \in 1..Len(runs) :
        /\ runs[i].pc = "done" /\ runs[i].posted
        /\ runs[i].calls = << "tokenExchange", "orgQuery", "repoQuery", "createComment" >>
        /\ runs[i].sessions = {i}
        /\ \E c \in CommentsBy({i}) : comments[c].totalBypasses = 1

\* C30: report structure.  The count in the header of the comment is the
\* number of organization-scope records plus the number of
\* repository-scope records the queries returned for the merge commit,
\* and the comment has the section of a scope exactly when that scope
\* returned at least one record.
C30_ReportStructure ==
    LET ko == Matching(probe.orgResponse, probe.mergeCommitSha)
        kr == Matching(probe.repoResponse, probe.mergeCommitSha)
    IN  probe.stage = "comment"
        => /\ Len(probe.org) = ko /\ Len(probe.repo) = kr
           /\ probe.totalBypasses = ko + kr
           /\ "Organization-Level Bypasses" \in probe.sections <=> ko > 0
           /\ "Repository-Level Bypasses" \in probe.sections <=> kr > 0
           /\ probe.sections \subseteq
                  {"Organization-Level Bypasses", "Repository-Level Bypasses"}

C30_Witness ==
    /\ probe.stage = "comment"
    /\ Len(probe.org) = 2 /\ Len(probe.repo) = 0
    /\ probe.totalBypasses = 2
    /\ probe.sections = {"Organization-Level Bypasses"}

\* the first n characters of a sequence of characters
FirstChars(str, n) == [ k \in 1..(IF Len(str) < n THEN Len(str) ELSE n) |-> str[k] ]

\* C31: record rendering.  Every rule suite is rendered in its place with
\* the first 7 characters of after_sha and of before_sha ("Unknown" when
\* the field is absent), with actor_name or "Unknown" when it is absent,
\* and with the label status if present, otherwise result, otherwise
\* "bypass".
C31_RecordRendering ==
    probe.stage = "formatted"
    => /\ Len(probe.formatted) = Len(probe.ruleSuites)
       /\ \A n \in 1..Len(probe.ruleSuites) :
              LET r == probe.ruleSuites[n]
                  f == probe.formatted[n]
              IN  /\ f.afterSha = IF r.after_sha = << >> THEN Unknown
                                  ELSE FirstChars(r.after_sha, 7)
                  /\ f.beforeSha = IF r.before_sha = << >> THEN Unknown
                                   ELSE FirstChars(r.before_sha, 7)
                  /\ Len(f.afterSha) <= 7 /\ Len(f.beforeSha) <= 7
                  /\ f.actorName = IF r.actor_name = "" THEN "Unknown" ELSE r.actor_name
                  /\ r.status # "" => f.status = r.status
                  /\ ( r.status = "" /\ r.result # "" ) => f.status = r.result
                  /\ ( r.status = "" /\ r.result = "" ) => f.status = "bypass"

C31_Witness ==
    /\ probe.stage = "formatted"
    /\ Len(probe.ruleSuites) = 2
    /\ probe.ruleSuites[1].after_sha = << "a", "b", "c", "d", "e", "f", "0", "1", "2" >>
    /\ probe.formatted[1].afterSha = << "a", "b", "c", "d", "e", "f", "0" >>
    /\ probe.ruleSuites[1].status # "" /\ probe.ruleSuites[1].result # ""
    /\ probe.formatted[2].beforeSha = Unknown
    /\ probe.formatted[2].actorName = "Unknown"
    /\ probe.formatted[2].status = "fail"

TerminalStates == {"Skipped", "Deduplicated", "Completed", "Failed"}

\* C32: termination.  When every external call returns or fails, every
\* delivery reaches a terminal state; a run that is over has exactly one
\* of Skipped, Deduplicated, Completed and Failed and a run that is not
\* has none; a run that is over never changes again; and a run issues at
\* most the four calls of the pipeline, each once.
C32_Termination ==
    /\ [][ \A i \in 1..Len(runs) :
               /\ runs[i].pc = "done" => runs'[i] = runs[i]
               /\ runs'[i].pc = "done" <=> runs'[i].outcome \in TerminalStates
               /\ runs'[i].pc # "done" => runs'[i].outcome = "pending"
               /\ Len(runs'[i].calls) <= 4
               /\ ( runs'[i] # runs[i] /\ runs'[i].pc # "done" )
                  => Len(runs'[i].calls) = Len(runs[i].calls) + 1
         ]_vars
    /\ \A i \in 1..MaxPipelines :
           [] ( Len(runs) >= i => <> ( Len(runs) >= i /\ runs[i].pc = "done" ) )

C32_Witness ==
    \E i, j \in 1..Len(runs) :
        /\ runs[i].pc = "done" /\ runs[i].outcome = "Completed"
        /\ Len(runs[i].calls) = 4
        /\ runs[j].pc = "done" /\ runs[j].outcome = "Failed"
        /\ runs[j].error = "rejected" /\ runs[j].calls = << "tokenExchange" >>

\* C33: pipelines do not block each other.  A run that waits for an
\* external call waits for nothing else: its call can settle whatever the
\* other runs do; a step of one run changes no other run; and a delivery
\* whose DedupKey is not in the set passes the gate and starts as its
\* event and the configuration alone decide, however many runs are
\* suspended at that moment.
C33_PipelinesDoNotBlock ==
    /\ [] ( \A i \in 1..MaxPipelines :
                ( i <= Len(runs) /\ runs[i].pc # "done" ) => ENABLED ReturnsOf(i) )
    /\ [][ /\ \A i, j \in 1..Len(runs) :
                 ( runs'[i] # runs[i] /\ runs'[j] # runs[j] ) => i = j
           /\ Len(runs') > Len(runs)
              => LET n == Len(runs')
                     e == runs'[n].ev
                 IN  /\ \A i \in 1..Len(runs) : runs'[i] = runs[i]
                     /\ runs'[n].arrivedDuring = { i \in 1..Len(runs) : runs[i].pc # "done" }
                     /\ ( e.hasBody /\ ~InSet(processedWebhooks, << "md5", WebhookId(e) >>) )
                        => /\ runs'[n].outcome # "Deduplicated"
                           /\ ProcessWebhookStart(e, env) = "tokenExchange"
                              <=> runs'[n].pc = "auth"
                           /\ ProcessWebhookStart(e, env) = "Skipped"
                              <=> runs'[n].outcome = "Skipped"
         ]_vars

C33_Witness ==
    \E i, j \in 1..Len(runs) :
        /\ i < j /\ KeyOf(i) # KeyOf(j)
        /\ runs[i].pc = "orgq"
        /\ i \in runs[j].arrivedDuring
        /\ runs[j].pc = "done" /\ runs[j].outcome = "Completed" /\ runs[j].posted
        /\ CommentsBy({j}) # {}

\* C34: validateRuleset answers true for every pull request, also when its
\* logger.info call throws; so handlePullRequest, handed an event that is
\* not a merged close, finds nothing bypassed, creates no client and posts
\* no comment.
C34_ValidateRulesetAlwaysTrue ==
    /\ \A e \in Events, t \in BOOLEAN :
           e.pull_request.present => ValidateRulesetLogged(e.pull_request, t)
    /\ probe.stage = "handled"
       => /\ ~probe.bypassed
          /\ ( probe.ev.hasBody /\ probe.ev.pull_request.present
               /\ ~(probe.ev.action = "closed" /\ probe.ev.pull_request.merged) )
             => probe.next = "Skipped"

C34_Witness ==
    /\ probe.stage = "handled"
    /\ probe.infoThrows
    /\ probe.ev.action = "opened" /\ probe.ev.pull_request.present
    /\ probe.next = "Skipped"
    /\ ~probe.bypassed

\* the credential exchange of run i failed: createOctokitClient threw on
\* the configuration or on the token exchange
CredentialFailure(i) == runs[i].error \in {"config", "transient", "rejected"}

\* C35: a run whose credential exchange failed has issued no rule-suite
\* query and no comment post, has left no comment, and has ended as Failed
\* with the error caught and logged inside the handler.
C35_CredentialFailureStopsRun ==
    \A i \in 1..Len(runs) :
        CredentialFailure(i)
        => /\ runs[i].pc = "done" /\ runs[i].outcome = "Failed"
           /\ runs[i].propagated = ""
           /\ ~Called(i, "orgQuery") /\ ~Called(i, "repoQuery")
           /\ ~Called(i, "createComment")
           /\ runs[i].calls = IF runs[i].error = "config"
                                THEN << >> ELSE << "tokenExchange" >>
           /\ ~runs[i].posted /\ CommentsBy({i}) = {}

C35_Witness ==
    \E i, j \in 1..Len(runs) :
        /\ runs[i].error = "rejected" /\ runs[i].outcome = "Failed"
        /\ runs[i].calls = << "tokenExchange" >>
        /\ NeedsSession(runs[j].ev) /\ runs[j].posted
        /\ runs[j].ev.pull_request.number = runs[i].ev.pull_request.number

\* C36: no false notification.  Comments are only ever added, one at a
\* time; the run that adds one handles a pull_request event with action
\* closed, merged true and a merge commit, and the records its two
\* queries returned, of which there is at least one, all carry that merge
\* commit as after_sha.
C36_NoFalseNotification ==
    [][ /\ \/ comments' = comments
           \/ Len(comments') = Len(comments) + 1
              /\ SubSeq(comments', 1, Len(comments)) = comments
        /\ Len(comments') > Len(comments)
           => LET c    == comments'[Len(comments')]
                  e    == runs[c.run].ev
                  recs == runs[c.run].org \o runs[c.run].repo
              IN  /\ e.hasBody /\ e.event = "pull_request" /\ e.action = "closed"
                  /\ e.pull_request.present /\ e.pull_request.merged
                  /\ e.pull_request.merge_commit_sha # ""
                  /\ runs'[c.run].ev = e
                  /\ Len(recs) >= 1 /\ c.totalBypasses = Len(recs)
                  /\ \A n \in 1..Len(recs) :
                         recs[n].after_sha = e.pull_request.merge_commit_sha
      ]_vars

C36_Witness ==
    \E c \in 1..Len(comments) :
        /\ comments[c].totalBypasses = 4
        /\ runs[comments[c].run].ev.pull_request.merge_commit_sha = "shaA"
        /\ runs[comments[c].run].outcome = "Completed"

\* run i ends in failure in this step
EndsFailed(i) ==
    /\ i \in 1..Len(runs')
    /\ runs'[i].ev.hasBody
    /\ runs'[i].pc = "done" /\ runs'[i].outcome = "Failed"
    /\ (i > Len(runs) \/ runs[i].pc # "done")

\* the set run i found when it ended, its own key included
SetAtEnd(i) ==
    IF i > Len(runs)
        THEN GateAdd(processedWebhooks, << "md5", WebhookId(runs'[i].ev) >>)
        ELSE processedWebhooks

\* C37: a DedupKey is never removed because processing failed.  The step
\* in which a run ends in failure changes the dedup set only by the
\* size-driven clean-up every run performs, so the run's key stays unless
\* the set had grown beyond the retention bound; the failed run has left
\* no comment; and a delivery whose key is retained is deduplicated: it
\* makes no call and changes neither the set nor the comments.
C37_FailureRemovesNoKey ==
    [][ /\ \A i \in 1..Len(runs') :
               EndsFailed(i)
               => LET key == << "md5", WebhookId(runs'[i].ev) >>
                  IN  /\ processedWebhooks' \in { SetAtEnd(i), CleanUp(SetAtEnd(i)) }
                      /\ ( InSet(SetAtEnd(i), key) /\ Len(SetAtEnd(i)) <= RetentionBound )
                         => InSet(processedWebhooks', key)
                      /\ CommentsBy({i}) = {} /\ comments' = comments
        /\ ( /\ Len(runs') > Len(runs)
             /\ runs'[Len(runs')].ev.hasBody
             /\ InSet(processedWebhooks, << "md5", WebhookId(runs'[Len(runs')].ev) >>) )
           => /\ runs'[Len(runs')].outcome = "Deduplicated"
              /\ runs'[Len(runs')].calls = << >>
              /\ processedWebhooks' = processedWebhooks
              /\ comments' = comments
      ]_vars

C37_Witness ==
    \E i, j \in 1..Len(runs) :
        /\ i < j /\ KeyOf(i) = KeyOf(j)
        /\ runs[i].outcome = "Failed" /\ runs[i].error \in {"transient", "rejected"}
        /\ runs[j].outcome = "Deduplicated"
        /\ InSet(processedWebhooks, KeyOf(i))
        /\ CommentsFor(KeyOf(i)) = {}

\* the positions of the dedup set whose keys the step removes
Removed == { n \in 1..Len(processedWebhooks) :
                ~InSet(processedWebhooks', processedWebhooks[n]) }

\* C38: a duplicate delivery leaves the dedup set exactly as it was, order
\* included, and evicts nothing; the keys a step removes are the oldest
\* ones, the keys that stay keep their order and a new key goes to the
\* end, so keys leave in the order of their first insertion; and keys are
\* removed only in the step in which a run that was not a duplicate ends.
C38_DuplicateLeavesSetUnchanged ==
    [][ /\ ( /\ Len(runs') > Len(runs)
             /\ runs'[Len(runs')].outcome = "Deduplicated" )
           => /\ processedWebhooks' = processedWebhooks
              /\ runs'[Len(runs')].evicted = << >>
        /\ Removed = 1..Cardinality(Removed)
        /\ LET kept == SubSeq(processedWebhooks, Cardinality(Removed) + 1,
                              Len(processedWebhooks))
           IN  \/ processedWebhooks' = kept
               \/ /\ Len(runs') > Len(runs)
                  /\ processedWebhooks' =
                         Append(kept, << "md5", WebhookId(runs'[Len(runs')].ev) >>)
                  /\ ~InSet(processedWebhooks, << "md5", WebhookId(runs'[Len(runs')].ev) >>)
        /\ Removed # {}
           => \E i \in 1..Len(runs') :
                  /\ Evicts(i)
                  /\ runs'[i].outcome # "Deduplicated"
                  /\ runs'[i].pc = "done"
                  /\ Len(runs'[i].evicted) = Cardinality(Removed)
      ]_vars

C38_Witness ==
    \E i, j, k \in 1..Len(runs) :
        /\ i < j /\ j < k
        /\ KeyOf(i) = KeyOf(j) /\ runs[j].outcome = "Deduplicated"
        /\ runs[k].evicted = << KeyOf(i) >>
        /\ Len(processedWebhooks) = RetentionBound

\* C39: no cross-talk between concurrent events.  However the runs
\* interleave, a comment goes to the owner, the repository and the pull
\* request number of the event of the run that posts it and counts the
\* records that run holds, all of which carry that run's own merge commit;
\* the records and the session a run holds change only in that run's own
\* steps; and of the state of other runs a step touches nothing.
C39_NoCrossTalk ==
    [][ /\ Len(comments') > Len(comments)
           => LET c   == comments'[Len(comments')]
                  run == runs[c.run]
                  pr  == run.ev.pull_request
              IN  /\ run.pc = "post" /\ runs'[c.run].posted
                  /\ c.owner = pr.full_name[1] /\ c.repo = pr.full_name[2]
                  /\ c.issue_number = pr.number
                  /\ c.totalBypasses = Len(run.org) + Len(run.repo)
                  /\ \A n \in 1..Len(run.org) : run.org[n].after_sha = pr.merge_commit_sha
                  /\ \A n \in 1..Len(run.repo) : run.repo[n].after_sha = pr.merge_commit_sha
                  /\ \A j \in 1..Len(runs) : j # c.run => runs'[j] = runs[j]
        /\ \A i, j \in 1..Len(runs) :
               ( i # j /\ runs'[i] # runs[i] ) => runs'[j] = runs[j]
        /\ \A i \in 1..Len(runs) :
               ( runs'[i].pc # "done" /\ runs'[i].octokit # 0 ) => runs'[i].octokit = i
      ]_vars

C39_Witness ==
    \E i, j \in 1..Len(runs) :
        /\ i < j /\ i \in runs[j].arrivedDuring
        /\ runs[i].ev.pull_request.number # runs[j].ev.pull_request.number
        /\ runs[i].posted /\ runs[j].posted
        /\ Len(comments) = 2
        /\ comments[1].run = j /\ comments[1].issue_number = "7"
        /\ comments[1].repo = "gadgets"
        /\ comments[2].run = i /\ comments[2].issue_number = "42"
        /\ comments[2].repo = "widgets"

====
